---- MODULE Spec2Model ----
(***************************************************************************)
(* Model of the Pascal VOC annotator: the annotation codec                 *)
(* (datasets/generate_pascalvoc_annotations.py) and the annotator session  *)
(* (pascalvoc_annotator.py).                                               *)
(*                                                                         *)
(* Python values are modelled as follows.                                  *)
(*   str path        -> [abs : BOOLEAN, parts : Seq([stem, ext])]          *)
(*   list / tuple    -> sequence                                           *)
(*   None label      -> the value None                                     *)
(*   decimal text    -> sequence of one-character strings                  *)
(*   XML document    -> [size, objects] with the element texts as written  *)
(*   file system     -> [dirs : set of resolved paths,                     *)
(*                       files : resolved path -> document]                *)
(*   self            -> a record holding the fields of the session object  *)
(***************************************************************************)
EXTENDS Integers, Sequences, FiniteSets, TLC

\* ---------------------------------------------------------------- bounds
NumImages == 2
MaxEdits == 2
MaxObjs == 2

\* ------------------------------------------------------------- test data
\* the stems of the .jpg files a folder holds (the first NumImages of them)
Stems == <<"a", "b", "c", "d">>
DownPoints == {<<3, 4>>}
MovePoints == {<<12, 0>>}
ImgShape == <<48, 64, 3>>
SessionLabel == "red roomba"
StoredLabel == "green roomba"
CodecLabels == {"red roomba", "green roomba", ""}
CodecBoxes == {<<3, 4, 12, 0>>, <<10, 10, 50, 50>>, <<-7, 105, 0, 9>>}
Cwd == <<[stem |-> "home", ext |-> ""]>>

None == "<None>"
NoExc == "none"

\* ------------------------------------------------------- Python built-ins
Last(s) == s[Len(s)]
Front(s) == SubSeq(s, 1, Len(s) - 1)

DigitChars == <<"0", "1", "2", "3", "4", "5", "6", "7", "8", "9">>

RECURSIVE NatStr(_)
NatStr(n) == IF n < 10 THEN <<DigitChars[n + 1]>>
             ELSE NatStr(n \div 10) \o <<DigitChars[(n % 10) + 1]>>

\* str(n) of an int
PyStr(n) == IF n < 0 THEN <<"-">> \o NatStr(-n) ELSE NatStr(n)

DigitVal(c) == CHOOSE d \in 0..9 : DigitChars[d + 1] = c

RECURSIVE NatVal(_)
NatVal(t) == IF t = <<>> THEN 0 ELSE 10 * NatVal(Front(t)) + DigitVal(Last(t))

\* int(text) of a decimal text
PyInt(t) == IF t # <<>> /\ t[1] = "-" THEN -NatVal(Tail(t)) ELSE NatVal(t)

\* str(label): a str is itself, None prints as the word None
PyStrLabel(l) == IF l = None THEN "None" ELSE l

\* ---------------------------------------------------------------- os.path
Dir(name) == [stem |-> name, ext |-> ""]
AbsPath(parts) == [abs |-> TRUE, parts |-> parts]
RelPath(parts) == [abs |-> FALSE, parts |-> parts]

join(a, b) == IF b.abs THEN b ELSE [abs |-> a.abs, parts |-> a.parts \o b.parts]

\* os.path.splitext(p)[0]
splitext(p) == [p EXCEPT !.parts[Len(p.parts)].ext = ""]

dirname(p) == [p EXCEPT !.parts = Front(p.parts)]

basename(p) == RelPath(<<Last(p.parts)>>)

\* p + '.xml' for a path p whose last component has no extension
PlusExt(p, e) == [p EXCEPT !.parts[Len(p.parts)].ext = e]

\* the file-system object a path names: relative paths start at the working
\* directory and "." components name the directory they stand in
Resolve(p) == (IF p.abs THEN <<>> ELSE Cwd)
              \o SelectSeq(p.parts, LAMBDA c : c # Dir("."))

\* ----------------------------------------------------------- source constants
PASCAL_VOC_IMAGE_EXTENSION == ".jpg"
ANNOTATION_DEFAULT_DIR == RelPath(<<Dir("Annotations")>>)

\* ------------------------------------------------------------------ codec
generate_xml_element_with_text(text) == PyStr(text)

generate_object_annotation(obj_name, bbox) ==
    [name |-> PyStrLabel(obj_name),
     truncated |-> generate_xml_element_with_text(0),
     difficult |-> generate_xml_element_with_text(0),
     bndbox |-> [k \in 1..4 |-> generate_xml_element_with_text(bbox[k])]]

Min(a, b) == IF a < b THEN a ELSE b

\* the tree built by lines 62-73: zip() stops at the shorter collection
EncodeDocument(shape, obj_names, bboxes) ==
    [size |-> <<PyStr(shape[2]), PyStr(shape[1]), PyStr(shape[3])>>,
     objects |-> [k \in 1..Min(Len(obj_names), Len(bboxes)) |->
                     generate_object_annotation(obj_names[k], bboxes[k])]]

\* ElementTree's .text of a parsed element: an element without text has None
ElementText(t) == IF t = "" THEN None ELSE t

parse_pascalvoc_annoation(doc) ==
    <<[k \in 1..Len(doc.objects) |->
          [j \in 1..4 |-> PyInt(doc.objects[k].bndbox[j])]],
      [k \in 1..Len(doc.objects) |-> ElementText(doc.objects[k].name)]>>


\* ------------------------------------------------------------ file system
exists(fs, p) == Resolve(p) \in fs.dirs \/ Resolve(p) \in DOMAIN fs.files

isdir(fs, p) == Resolve(p) \in fs.dirs

isfile(fs, p) == Resolve(p) \in DOMAIN fs.files

\* cv2.imread(p) is not None
imread(fs, p) == Resolve(p) \in fs.images

Without(f, x) == [y \in DOMAIN f \ {x} |-> f[y]]

\* os.mkdir: the parent directory must exist
mkdir(fs, p) ==
    IF Front(Resolve(p)) \in fs.dirs
    THEN [fs |-> [fs EXCEPT !.dirs = @ \cup {Resolve(p)}], exc |-> NoExc]
    ELSE [fs |-> fs, exc |-> "FileNotFoundError"]

\* os.remove: the file must exist
remove(fs, p) ==
    IF isfile(fs, p)
    THEN [fs |-> [fs EXCEPT !.files = Without(@, Resolve(p))], exc |-> NoExc]
    ELSE [fs |-> fs, exc |-> "FileNotFoundError"]

\* open(p, 'wb') and write: the directory must exist, the content is replaced
WriteFile(fs, p, doc) ==
    IF Front(Resolve(p)) \in fs.dirs
    THEN [fs |-> [fs EXCEPT !.files =
                     [q \in DOMAIN @ \cup {Resolve(p)} |->
                         IF q = Resolve(p) THEN doc ELSE @[q]]],
          exc |-> NoExc]
    ELSE [fs |-> fs, exc |-> "FileNotFoundError"]

\* mutant of generate_pascalvoc_annotation_from_image: the existence check is dropped
generate_pascalvoc_annotation_from_image_AlwaysWrites(fs, shape, obj_names, bboxes, file_path, overwrite) ==
    WriteFile(fs, file_path, EncodeDocument(shape, obj_names, bboxes))

generate_pascalvoc_annotation_from_image(fs, shape, obj_names, bboxes, file_path, overwrite) ==
    IF ~overwrite /\ exists(fs, file_path)
    THEN [fs |-> fs, exc |-> "AssertionError"]
    ELSE WriteFile(fs, file_path, EncodeDocument(shape, obj_names, bboxes))

\* annotation_dir=None of the source
NoneDir == [abs |-> FALSE, parts |-> <<>>]

\* the path the annotation of img_path is written to (lines 99, 104-108, 113)
AnnotationWritePath(img_path, annotation_dir) ==
    LET img_file_name == splitext(img_path)
    IN IF annotation_dir = NoneDir
       THEN PlusExt(img_file_name, ".xml")
       ELSE LET img_folder == dirname(img_file_name)
                img_name == basename(img_file_name)
                annotation_folder == join(img_folder, annotation_dir)
            IN PlusExt(join(annotation_folder, img_name), ".xml")

generate_pascvalvoc_annotation_from_image_file(fs, img_path, obj_names, bboxes, annotation_dir, overwrite) ==
    IF ~imread(fs, img_path)
    THEN [fs |-> fs, exc |-> "AssertionError"]
    ELSE IF annotation_dir = NoneDir
    THEN generate_pascalvoc_annotation_from_image(
             fs, ImgShape, obj_names, bboxes,
             AnnotationWritePath(img_path, annotation_dir), overwrite)
    ELSE LET annotation_folder == join(dirname(splitext(img_path)), annotation_dir)
             made == IF ~exists(fs, annotation_folder)
                     THEN mkdir(fs, annotation_folder)
                     ELSE [fs |-> fs, exc |-> NoExc]
         IN IF made.exc # NoExc THEN made
            ELSE generate_pascalvoc_annotation_from_image(
                     made.fs, ImgShape, obj_names, bboxes,
                     AnnotationWritePath(img_path, annotation_dir), overwrite)

\* ---------------------------------------------------------------- session
annotation_dir(self) == join(self.folder, ANNOTATION_DEFAULT_DIR)

cur_img_path(self) == self.img_paths[self.index + 1]

\* mutant of AnnotationRemovePath: the file of the following image is named
AnnotationRemovePath_OfNextImage(self) ==
    join(annotation_dir(self),
         PlusExt(basename(splitext(self.img_paths[((self.index + 1) % Len(self.img_paths)) + 1])),
                 ".xml"))

\* the path _remove_annotation_file_when_empty looks at (line 77)
AnnotationRemovePath(self) ==
    join(annotation_dir(self), PlusExt(basename(splitext(cur_img_path(self))), ".xml"))

\* the key under which _load_saved_annotations files an annotation (line 65)
AnnotationKey(folder, filename) ==
    join(folder, PlusExt(basename(splitext(filename)), PASCAL_VOC_IMAGE_EXTENSION))

\* the entries of os.listdir(annotation_dir), as file names
ListAnnotationDir(self, fs) ==
    {RelPath(<<Last(q)>>) : q \in {r \in DOMAIN fs.files :
                                      Front(r) = Resolve(annotation_dir(self))}}

load_saved_annotations(self, fs) ==
    IF isdir(fs, annotation_dir(self))
    THEN LET names == ListAnnotationDir(self, fs)
             keys == {AnnotationKey(self.folder, n) : n \in names}
             FileOf(k) == CHOOSE n \in names : AnnotationKey(self.folder, n) = k
         IN [self EXCEPT !.annotations =
                [k \in keys |-> parse_pascalvoc_annoation(
                    fs.files[Resolve(join(annotation_dir(self), FileOf(k)))])]]
    ELSE self

\* mutant of remove_annotation_file_when_empty: an existing file is deleted
\* whatever the record holds
remove_annotation_file_when_empty_AnyRecord(self, fs) ==
    IF self.has_index /\ isfile(fs, AnnotationRemovePath(self))
    THEN [self |-> self] @@ remove(fs, AnnotationRemovePath(self))
    ELSE [self |-> self, fs |-> fs, exc |-> NoExc]

remove_annotation_file_when_empty(self, fs) ==
    IF self.has_index
    THEN LET annotation_file_path == AnnotationRemovePath(self)
         IN IF self.cur_bboxes = <<>>
               \/ (self.cur_labels = <<>> /\ isfile(fs, annotation_file_path))
            THEN [self |-> self] @@ remove(fs, annotation_file_path)
            ELSE [self |-> self, fs |-> fs, exc |-> NoExc]
    ELSE [self |-> self, fs |-> fs, exc |-> NoExc]

\* lines 134-136 of the index setter: persist the outgoing image
SaveOutgoing(self, fs) ==
    IF self.cur_img /\ self.cur_bboxes # <<>> /\ self.changed
    THEN IF Len(self.cur_labels) # Len(self.cur_bboxes)
         THEN [self |-> self, fs |-> fs, exc |-> "AssertionError"]
         ELSE [self |-> self] @@
              generate_pascvalvoc_annotation_from_image_file(
                  fs, cur_img_path(self), self.cur_labels, self.cur_bboxes,
                  annotation_dir(self), TRUE)
    ELSE [self |-> self, fs |-> fs, exc |-> NoExc]

\* lines 140-148 of the index setter: load the incoming image
LoadIncoming(self, fs, value) ==
    LET idx == value % Len(self.img_paths)
        path == self.img_paths[idx + 1]
        img == imread(fs, path)
        ann == IF path \in DOMAIN self.annotations
               THEN self.annotations
               ELSE [k \in DOMAIN self.annotations \cup {path} |->
                        IF k = path THEN <<<<>>, <<>>>> ELSE self.annotations[k]]
        loaded == [self EXCEPT !.index = idx, !.has_index = TRUE, !.cur_img = img,
                               !.annotations = ann,
                               !.cur_bboxes = ann[path][1],
                               !.cur_labels = ann[path][2]]
    IN IF img
       THEN [self |-> [loaded EXCEPT !.changed = FALSE], fs |-> fs, exc |-> NoExc]
       ELSE [self |-> loaded, fs |-> fs, exc |-> "AssertionError"]

\* @index.setter
index_setter(self, fs, value) ==
    LET saved == SaveOutgoing(self, fs)
    IN IF saved.exc # NoExc THEN saved
       ELSE LET removed == remove_annotation_file_when_empty(saved.self, saved.fs)
            IN IF removed.exc # NoExc THEN removed
               ELSE LoadIncoming(removed.self, removed.fs, value)

next_image(self, fs) == index_setter(self, fs, self.index + 1)

prev_image(self, fs) == index_setter(self, fs, self.index - 1)

\* mutant of WithRecord: the current lists are copies, the map entry is not changed
WithRecord_CopiesLists(self, bboxes, labels) ==
    [self EXCEPT !.cur_bboxes = bboxes, !.cur_labels = labels]

\* the committed record is the list object held by the map: a change of the
\* current lists is a change of the map entry of the current image
WithRecord(self, bboxes, labels) ==
    [self EXCEPT !.cur_bboxes = bboxes, !.cur_labels = labels,
                 !.annotations = IF cur_img_path(self) \in DOMAIN @
                                 THEN [@ EXCEPT ![cur_img_path(self)] = <<bboxes, labels>>]
                                 ELSE @]

\* mutant of undo: the dirty flag is set before the guard is tested
undo_MarksDirtyFirst(self) ==
    IF self.bbbox_in_progress = <<>> /\ self.cur_bboxes # <<>> /\ self.cur_labels # <<>>
    THEN WithRecord([self EXCEPT !.changed = TRUE],
                    Front(self.cur_bboxes), Front(self.cur_labels))
    ELSE [self EXCEPT !.changed = TRUE]

\* mutant of undo: the oldest pair is removed instead of the newest
undo_RemovesFirst(self) ==
    IF self.bbbox_in_progress = <<>> /\ self.cur_bboxes # <<>> /\ self.cur_labels # <<>>
    THEN WithRecord([self EXCEPT !.changed = TRUE],
                    Tail(self.cur_bboxes), Tail(self.cur_labels))
    ELSE self

undo(self) ==
    IF self.bbbox_in_progress = <<>> /\ self.cur_bboxes # <<>> /\ self.cur_labels # <<>>
    THEN WithRecord([self EXCEPT !.changed = TRUE],
                    Front(self.cur_bboxes), Front(self.cur_labels))
    ELSE self

\* mutant of clear: the in-progress box is discarded with the record
clear_DropsDrag(self, fs) ==
    LET s1 == [self EXCEPT !.cur_img = FALSE, !.changed = TRUE,
                           !.bbbox_in_progress = <<>>,
                           !.annotations = IF cur_img_path(self) \in DOMAIN @
                                           THEN Without(@, cur_img_path(self))
                                           ELSE @]
    IN index_setter(s1, fs, s1.index)

clear(self, fs) ==
    LET s1 == [self EXCEPT !.cur_img = FALSE, !.changed = TRUE,
                           !.annotations = IF cur_img_path(self) \in DOMAIN @
                                           THEN Without(@, cur_img_path(self))
                                           ELSE @]
    IN index_setter(s1, fs, s1.index)

LBUTTONDOWN(self, x, y) == [self EXCEPT !.bbbox_in_progress = <<x, y, x, y>>]

MOUSEMOVE(self, x, y) ==
    IF self.bbbox_in_progress # <<>>
    THEN [self EXCEPT !.bbbox_in_progress[3] = x, !.bbbox_in_progress[4] = y]
    ELSE self

\* mutant of LBUTTONUP: the new pair is put in front of the record
LBUTTONUP_Prepends(self) ==
    IF self.bbbox_in_progress # <<>>
    THEN [WithRecord([self EXCEPT !.changed = TRUE],
                     <<self.bbbox_in_progress>> \o self.cur_bboxes,
                     <<self.obj_label>> \o self.cur_labels)
             EXCEPT !.bbbox_in_progress = <<>>]
    ELSE self

LBUTTONUP(self) ==
    IF self.bbbox_in_progress # <<>>
    THEN [WithRecord([self EXCEPT !.changed = TRUE],
                     Append(self.cur_bboxes, self.bbbox_in_progress),
                     Append(self.cur_labels, self.obj_label))
             EXCEPT !.bbbox_in_progress = <<>>]
    ELSE self

\* __exit__: the window is destroyed unless the flush raises
exit(self, fs) ==
    LET flushed == IF self.changed
                   THEN index_setter(self, fs, self.index + 1)
                   ELSE [self |-> self, fs |-> fs, exc |-> NoExc]
    IN flushed @@ [destroyed |-> flushed.exc = NoExc]

\* __init__ on a folder that is a directory and holds the images img_paths
init(folder, img_paths, obj_label, fs) ==
    LET s0 == [folder |-> folder, img_paths |-> img_paths, obj_label |-> obj_label,
               index |-> 0, has_index |-> FALSE, cur_img |-> FALSE,
               cur_bboxes |-> <<>>, cur_labels |-> <<>>, changed |-> FALSE,
               bbbox_in_progress |-> <<>>,
               annotations |-> [k \in {} |-> <<>>]]
    IN index_setter(load_saved_annotations(s0, fs), fs, 0)


\* ------------------------------------------------------------------ state
VARIABLES
    self,       \* the PascalVOCAnnotator object
    fs,         \* the file system
    window,     \* the display window: "none", "open" or "destroyed"
    pc,         \* run(): "constructed", "run", "exiting", "done" ("off": no session)
    exc,        \* the exception propagating out of the session, or NoExc
    last,       \* history: the last event dispatched, with the number of
                \* committed boxes it found on the current image
    untouched,  \* history: the images whose record no event has changed
    cleared,    \* history: progress of a clear / navigate away / navigate back
    edits,      \* history: the number of commits, undos and clears so far
    cpc,        \* codec round trip: "off", "input", "written", "decoded"
    cin,        \* codec round trip: the labels and boxes to encode
    cdoc,       \* codec round trip: the tree the call built
    cout,       \* codec round trip: the decoded (boxes, labels)
    cwrite      \* codec write: the path and overwrite flag of the direct call,
                \* and whether the path existed before it

vars == <<self, fs, window, pc, exc, last, untouched, cleared, edits, cpc, cin, cdoc, cout, cwrite>>
session_vars == <<self, fs, window, pc, exc, last, untouched, cleared, edits>>
codec_vars == <<cpc, cin, cdoc, cout, cwrite>>

\* ------------------------------------------------------------------- Init
Folders == {AbsPath(<<Dir("data")>>), RelPath(<<Dir("data")>>)}

ImageName(i) == RelPath(<<[stem |-> Stems[i], ext |-> PASCAL_VOC_IMAGE_EXTENSION]>>)

\* os.listdir(folder) returns the names in arbitrary order: every order of
\* the folder's images is a possible listing
ListDir ==
    {listing \in [1..NumImages -> 1..NumImages] :
        \A i, j \in 1..NumImages : listing[i] = listing[j] => i = j}

ImgPaths(folder, listing) ==
    [i \in 1..NumImages |-> join(folder, ImageName(listing[i]))]

\* annotation files as an earlier session left them
StoredDocs ==
    {EncodeDocument(ImgShape, <<StoredLabel, SessionLabel>>,
                    <<<<12, 0, 3, 4>>, <<3, 4, 3, 4>>>>)}

\* the annotation files a session run with --label '' left: one box, and a
\* name element without text
EmptyLabelDocs == {EncodeDocument(ImgShape, <<"">>, <<<<3, 4, 12, 0>>>>)}

\* the annotation file of the image named Stems[i], as a file-system object
StoredPath(folder, i) ==
    Resolve(folder) \o <<Dir("Annotations"), [stem |-> Stems[i], ext |-> ".xml"]>>

\* which images have an annotation file: as every listing order is taken, the
\* folders are taken up to the names of the images, the annotated ones first
StoredLayoutsOf(docs) ==
    {stored \in [1..NumImages -> {<<>>} \cup {<<d>> : d \in docs}] :
        \A i \in 2..NumImages : stored[i] # <<>> => stored[i - 1] # <<>>}

StoredLayouts == StoredLayoutsOf(StoredDocs)

\* which image cv2.imread cannot read: none, the last annotated one or the
\* first one without annotation
UnreadableLayouts(stored) ==
    {{}} \cup {{i} : i \in {j \in 1..NumImages :
                                \/ stored[j] # <<>> /\ (j = NumImages \/ stored[j + 1] = <<>>)
                                \/ stored[j] = <<>> /\ (j = 1 \/ stored[j - 1] # <<>>)}}

FileSystemsOf(folder, layouts) ==
    UNION {{[dirs |-> {<<>>, Cwd, Resolve(folder)}
                      \cup (IF \E i \in 1..NumImages : stored[i] # <<>>
                            THEN {Resolve(folder) \o <<Dir("Annotations")>>} ELSE {}),
             files |-> [q \in {StoredPath(folder, i) :
                                  i \in {j \in 1..NumImages : stored[j] # <<>>}}
                          |-> stored[CHOOSE i \in 1..NumImages : StoredPath(folder, i) = q][1]],
             images |-> {Resolve(join(folder, ImageName(i))) :
                            i \in (1..NumImages) \ unreadable}] :
               unreadable \in UnreadableLayouts(stored)} :
           stored \in layouts}

InitialFileSystems(folder) == FileSystemsOf(folder, StoredLayouts)

NoLast == [cmd |-> "none", n |-> 0]
NoCleared == [img |-> -1, phase |-> "none"]
NoCodec == [labels |-> <<>>, boxes |-> <<>>]
NoWrite == [path |-> AbsPath(<<>>), overwrite |-> FALSE, existed |-> FALSE]

\* the state after construction on a folder with one of the given layouts
Constructed(layouts) ==
    /\ \E folder \in Folders, listing \in ListDir : \E fs0 \in FileSystemsOf(folder, layouts) :
          LET made == init(folder, ImgPaths(folder, listing), SessionLabel, fs0)
          IN /\ made.exc = NoExc
             /\ self = made.self
             /\ fs = made.fs
    /\ window = "none"
    /\ pc = "constructed"
    /\ exc = NoExc
    /\ last = NoLast
    /\ untouched = 0..(NumImages - 1)
    /\ cleared = NoCleared
    /\ edits = 0
    /\ cpc = "off" /\ cin = NoCodec /\ cdoc = EncodeDocument(ImgShape, <<>>, <<>>)
    /\ cout = <<<<>>, <<>>>>
    /\ cwrite = NoWrite

Init == Constructed(StoredLayouts)

\* construction on a folder annotated by a session that was run with --label ''
InitRestore == Constructed(StoredLayoutsOf(EmptyLabelDocs))

\* ---------------------------------------------------------------- actions
Event(cmd) == [cmd |-> cmd, n |-> Len(self.cur_bboxes)]

\* __enter__
Enter ==
    /\ pc = "constructed"
    /\ window' = "open"
    /\ pc' = "run"
    /\ UNCHANGED <<self, fs, exc, last, untouched, cleared, edits, codec_vars>>

\* the outcome of a key handler: an exception leaves update() and the with block
Dispatch(o) ==
    /\ self' = o.self
    /\ fs' = o.fs
    /\ exc' = o.exc
    /\ pc' = IF o.exc = NoExc THEN "run" ELSE "exiting"
    /\ UNCHANGED <<window, codec_vars>>

\* history of the clear / away / back scenario across a navigation
ClearedAfterNav(o) ==
    IF cleared.phase = "cleared" /\ cleared.img = self.index
    THEN [cleared EXCEPT !.phase = IF o.exc # NoExc THEN "failed"
                                    ELSE IF o.self.index = self.index THEN "back"
                                    ELSE "away"]
    ELSE IF cleared.phase = "away" /\ o.exc = NoExc /\ o.self.index = cleared.img
    THEN [cleared EXCEPT !.phase = "back"]
    ELSE cleared

KeyNext ==
    /\ pc = "run"
    /\ LET o == next_image(self, fs)
       IN Dispatch(o) /\ cleared' = ClearedAfterNav(o)
    /\ last' = Event("next")
    /\ UNCHANGED <<untouched, edits>>

KeyPrev ==
    /\ pc = "run"
    /\ LET o == prev_image(self, fs)
       IN Dispatch(o) /\ cleared' = ClearedAfterNav(o)
    /\ last' = Event("prev")
    /\ UNCHANGED <<untouched, edits>>

KeyClear ==
    /\ pc = "run"
    /\ edits < MaxEdits
    /\ edits' = edits + 1
    /\ LET o == clear(self, fs)
       IN /\ Dispatch(o)
          /\ cleared' = IF self.cur_bboxes # <<>> /\ o.exc = NoExc
                        THEN [img |-> self.index, phase |-> "cleared"]
                        ELSE NoCleared
    /\ last' = Event("clear")
    /\ untouched' = untouched \ {self.index}

KeyUndo ==
    /\ pc = "run"
    /\ undo(self) # self => edits < MaxEdits
    /\ self' = undo(self)
    /\ edits' = IF self' # self THEN edits + 1 ELSE edits
    /\ last' = Event("undo")
    /\ untouched' = IF self' = self THEN untouched ELSE untouched \ {self.index}
    /\ UNCHANGED <<fs, window, pc, exc, cleared, codec_vars>>

KeyQuit ==
    /\ pc = "run"
    /\ pc' = "exiting"
    /\ last' = Event("quit")
    /\ UNCHANGED <<self, fs, window, exc, untouched, cleared, edits, codec_vars>>

LButtonDown ==
    /\ pc = "run"
    /\ \E p \in DownPoints : self' = LBUTTONDOWN(self, p[1], p[2])
    /\ last' = Event("down")
    /\ UNCHANGED <<fs, window, pc, exc, untouched, cleared, edits, codec_vars>>

MouseMove ==
    /\ pc = "run"
    /\ \E p \in MovePoints : self' = MOUSEMOVE(self, p[1], p[2])
    /\ last' = Event("move")
    /\ UNCHANGED <<fs, window, pc, exc, untouched, cleared, edits, codec_vars>>

LButtonUp ==
    /\ pc = "run"
    /\ self.bbbox_in_progress # <<>> => edits < MaxEdits
    /\ self' = LBUTTONUP(self)
    /\ last' = Event("up")
    /\ untouched' = IF self' = self THEN untouched ELSE untouched \ {self.index}
    /\ cleared' = IF self' # self /\ cleared.img = self.index THEN NoCleared ELSE cleared
    /\ edits' = IF self' # self THEN edits + 1 ELSE edits
    /\ UNCHANGED <<fs, window, pc, exc, codec_vars>>

\* __exit__, reached by quit or by an exception out of update()
Exit ==
    /\ pc = "exiting"
    /\ LET o == exit(self, fs)
       IN /\ self' = o.self
          /\ fs' = o.fs
          /\ exc' = IF o.exc # NoExc THEN o.exc ELSE exc
          /\ window' = IF o.destroyed THEN "destroyed" ELSE window
    /\ pc' = "done"
    /\ UNCHANGED <<last, untouched, cleared, edits, codec_vars>>

Next ==
    \/ Enter
    \/ KeyNext
    \/ KeyPrev
    \/ KeyClear
    \/ KeyUndo
    \/ KeyQuit
    \/ LButtonDown
    \/ MouseMove
    \/ LButtonUp
    \/ Exit

Spec == Init /\ [][Next]_vars

SpecRestore == InitRestore /\ [][Next]_vars


\* ------------------------------------- codec round trip and direct write
CodecInputs ==
    UNION {{[labels |-> l, boxes |-> b] :
               l \in [1..n -> CodecLabels], b \in [1..n -> CodecBoxes]} :
           n \in 1..MaxObjs}

NoSelf == [folder |-> AbsPath(<<>>), img_paths |-> <<>>, obj_label |-> "",
           index |-> 0, has_index |-> FALSE, cur_img |-> FALSE,
           cur_bboxes |-> <<>>, cur_labels |-> <<>>, changed |-> FALSE,
           bbbox_in_progress |-> <<>>, annotations |-> [k \in {} |-> <<>>]]

\* file_path arguments of a direct call: in a directory that exists, and in
\* one that does not
CodecPaths == {AbsPath(<<Dir("out"), [stem |-> "a", ext |-> ".xml"]>>),
               AbsPath(<<Dir("gone"), [stem |-> "a", ext |-> ".xml"]>>)}

\* the document an earlier call left at a path
OldDoc == CHOOSE d \in StoredDocs : TRUE

\* /out exists and holds either nothing or an earlier a.xml
CodecFileSystems ==
    {[dirs |-> {<<>>, <<Dir("out")>>},
      files |-> [q \in held |-> OldDoc],
      images |-> {}] :
        held \in {{}, {<<Dir("out"), [stem |-> "a", ext |-> ".xml"]>>}}}

CodecInit ==
    /\ cpc = "input"
    /\ cin \in CodecInputs
    /\ cdoc = EncodeDocument(ImgShape, <<>>, <<>>)
    /\ cout = <<<<>>, <<>>>>
    /\ cwrite = NoWrite
    /\ self = NoSelf
    /\ fs \in CodecFileSystems
    /\ window = "none"
    /\ pc = "off"
    /\ exc = NoExc
    /\ last = NoLast
    /\ untouched = {}
    /\ cleared = NoCleared
    /\ edits = 0

\* a direct call of generate_pascalvoc_annotation_from_image: the tree is
\* built (lines 62-73), then the file is written unless the assert raises
\* (lines 75-79); an exception ends the script
CodecWrite ==
    /\ cpc = "input"
    /\ \E file_path \in CodecPaths, overwrite \in BOOLEAN :
          LET o == generate_pascalvoc_annotation_from_image(
                       fs, ImgShape, cin.labels, cin.boxes, file_path, overwrite)
          IN /\ fs' = o.fs
             /\ exc' = o.exc
             /\ cwrite' = [path |-> file_path, overwrite |-> overwrite,
                           existed |-> exists(fs, file_path)]
    /\ cdoc' = EncodeDocument(ImgShape, cin.labels, cin.boxes)
    /\ cpc' = "written"
    /\ UNCHANGED <<cin, cout, self, window, pc, last, untouched, cleared, edits>>

\* _parse_pascalvoc_annoation of the file the call has written
CodecDecode ==
    /\ cpc = "written"
    /\ exc = NoExc
    /\ cout' = parse_pascalvoc_annoation(fs.files[Resolve(cwrite.path)])
    /\ cpc' = "decoded"
    /\ UNCHANGED <<cin, cdoc, cwrite, session_vars>>

CodecNext ==
    \/ CodecWrite
    \/ CodecDecode

SpecCodec == CodecInit /\ [][CodecNext]_vars

\* ----------------------------------------------------------------- claims
\* F/Annotations/<image-stem>.xml of the image at index i, as the
\* directory layout contract names it
ContractPath(i) ==
    Resolve(self.folder)
    \o <<Dir("Annotations"),
         [stem |-> Last(self.img_paths[i + 1].parts).stem, ext |-> ".xml"]>>

\* the boxes and labels a stored document holds, in document order
DocBoxes(doc) == [k \in 1..Len(doc.objects) |->
                     [j \in 1..4 |-> PyInt(doc.objects[k].bndbox[j])]]
DocLabels(doc) == [k \in 1..Len(doc.objects) |-> doc.objects[k].name]

\* a step of the n or p key, and the __exit__ that follows the q key
NavStep == pc = "run" /\ last'.cmd \in {"next", "prev"}
QuitStep == pc = "exiting" /\ last.cmd = "quit" /\ pc' = "done"

\* C1: after a Next, Previous or Quit transition that completes, the outgoing
\* image has an annotation file if and only if its record held at least one
\* committed box when the transition began.
C1_FileIffRecordNonEmpty ==
    [][((NavStep /\ pc' = "run") \/ (QuitStep /\ exc' = NoExc))
       => ((ContractPath(self.index) \in DOMAIN fs'.files) <=> (self.cur_bboxes # <<>>))]_vars

\* every image of the folder can be read
AllReadable == \A i \in 1..Len(self.img_paths) : imread(fs, self.img_paths[i])

\* C2: in a folder of readable images, after Clear on an image that had at
\* least one committed box, navigating away does not fail, and once the image
\* is current again it has zero committed boxes and no annotation file.
C2_ClearThenReload ==
    AllReadable =>
        /\ cleared.phase # "failed"
        /\ cleared.phase = "back" /\ pc = "run" /\ self.index = cleared.img
              => /\ self.cur_bboxes = <<>>
                 /\ ContractPath(cleared.img) \notin DOMAIN fs.files

\* C3: the index stays in 0..N-1, every Next moves it to the following index
\* modulo N (so N of them from 0 return to 0), and Previous from 0 lands on N-1.
C3_IndexWraparound ==
    [][/\ self'.index \in 0..(NumImages - 1)
       /\ pc = "run" /\ last'.cmd = "next"
             => self'.index = (self.index + 1) % NumImages
       /\ pc = "run" /\ last'.cmd = "prev" /\ self.index = 0
             => self'.index = NumImages - 1]_vars

\* C4: with no annotation file in the folder, Next on an image holding k >= 1
\* committed boxes leaves exactly one annotation file, the one of that image,
\* holding those k boxes in commit order, each with the session's label.
C4_NextWritesCommittedBoxes ==
    [][pc = "run" /\ last'.cmd = "next" /\ self.cur_bboxes # <<>>
       /\ DOMAIN fs.files = {}
       => /\ DOMAIN fs'.files = {ContractPath(self.index)}
          /\ DocBoxes(fs'.files[ContractPath(self.index)]) = self.cur_bboxes
          /\ DocLabels(fs'.files[ContractPath(self.index)])
                = [k \in 1..Len(self.cur_bboxes) |-> self.obj_label]]_vars

\* C5: Quit reconciles the current image as Next/Previous would: its file
\* holds the record if the image was dirty with >= 1 box, is absent if the
\* record was empty, is unchanged otherwise; then the loop has stopped.
C5_QuitReconciles ==
    [][QuitStep =>
         LET p == ContractPath(self.index)
         IN /\ self.changed /\ self.cur_bboxes # <<>>
                 => /\ p \in DOMAIN fs'.files
                    /\ DocBoxes(fs'.files[p]) = self.cur_bboxes
                    /\ DocLabels(fs'.files[p]) = self.cur_labels
            /\ self.cur_bboxes = <<>> => p \notin DOMAIN fs'.files
            /\ ~self.changed /\ self.cur_bboxes # <<>>
                 => /\ (p \in DOMAIN fs'.files) <=> (p \in DOMAIN fs.files)
                    /\ p \in DOMAIN fs.files => fs'.files[p] = fs.files[p]]_vars

\* C6: once the session was entered, the window is destroyed when the session
\* has ended, whichever way it ended.
C6_WindowDestroyedOnExit == pc = "done" => window = "destroyed"

\* C7: an annotation file present at construction is indexed under its
\* image's path, and while no event has changed that image's record, visiting
\* the image shows the file's boxes and labels in document order, not dirty.
C7_SavedAnnotationsRestored ==
    pc \in {"constructed", "run"} =>
        \A i \in untouched :
            ContractPath(i) \in DOMAIN fs.files =>
                /\ self.img_paths[i + 1] \in DOMAIN self.annotations
                /\ self.annotations[self.img_paths[i + 1]]
                      = <<DocBoxes(fs.files[ContractPath(i)]),
                          DocLabels(fs.files[ContractPath(i)])>>
                /\ i = self.index =>
                      /\ self.cur_bboxes = DocBoxes(fs.files[ContractPath(i)])
                      /\ self.cur_labels = DocLabels(fs.files[ContractPath(i)])
                      /\ ~self.changed

\* C8: decoding the encoding of equal-length, non-empty labels and boxes
\* yields the same boxes and the same labels, in order.
C8_RoundTrip ==
    cpc = "decoded" /\ Len(cin.labels) = Len(cin.boxes) /\ cin.labels # <<>>
        => cout = <<cin.boxes, cin.labels>>

\* C9: for every image, the path written, the path checked and deleted and
\* the path read at construction all name F/Annotations/<image-stem>.xml.
C9_OneAnnotationPath ==
    pc # "off" =>
        \A i \in 0..(NumImages - 1) :
            LET at == [self EXCEPT !.index = i]
                stem == basename(splitext(cur_img_path(at)))
            IN /\ Resolve(AnnotationWritePath(cur_img_path(at), annotation_dir(at)))
                     = ContractPath(i)
               /\ Resolve(AnnotationRemovePath(at)) = ContractPath(i)
               /\ Resolve(join(annotation_dir(at), PlusExt(stem, ".xml"))) = ContractPath(i)
               /\ AnnotationKey(self.folder, PlusExt(stem, ".xml")) = cur_img_path(at)

\* C10: Undo on an image with zero committed boxes changes nothing: no
\* error, the record, the dirty flag, the in-progress box and the files stay.
C10_UndoOnEmptyIsNoOp ==
    [][pc = "run" /\ last'.cmd = "undo" /\ self.cur_bboxes = <<>>
       => /\ self' = self
          /\ fs' = fs
          /\ pc' = "run" /\ exc' = NoExc /\ window' = window]_vars

\* C10 witness: Undo was dispatched on an empty record of a dirty image
\* while a drag was in progress.
C10_Witness ==
    /\ pc = "run" /\ last = [cmd |-> "undo", n |-> 0]
    /\ self.cur_bboxes = <<>> /\ self.changed
    /\ self.bbbox_in_progress # <<>>

\* C11: Undo while a drag is in progress changes nothing; otherwise, on an
\* image with >= 1 committed box, it removes exactly the last (box, label)
\* pair of the record and of its map entry, keeps the earlier pairs in order,
\* sets the dirty flag and changes nothing else.
C11_UndoRemovesLastPair ==
    [][pc = "run" /\ last'.cmd = "undo"
       => /\ self.bbbox_in_progress # <<>> => self' = self
          /\ self.bbbox_in_progress = <<>> /\ self.cur_bboxes # <<>>
                => /\ self'.cur_bboxes = Front(self.cur_bboxes)
                   /\ self'.cur_labels = Front(self.cur_labels)
                   /\ self'.changed
                   /\ self'.annotations
                         = [self.annotations EXCEPT ![cur_img_path(self)] =
                               <<Front(self.cur_bboxes), Front(self.cur_labels)>>]
                   /\ [self' EXCEPT !.cur_bboxes = self.cur_bboxes,
                                    !.cur_labels = self.cur_labels,
                                    !.changed = self.changed,
                                    !.annotations = self.annotations] = self
          /\ fs' = fs /\ pc' = "run" /\ exc' = NoExc]_vars

\* C11 witness: Undo took the second of the two stored pairs and left the
\* first, distinct one.
C11_Witness ==
    /\ pc = "run" /\ last = [cmd |-> "undo", n |-> 2]
    /\ self.bbbox_in_progress = <<>> /\ self.changed
    /\ self.cur_bboxes = <<<<12, 0, 3, 4>>>>
    /\ self.cur_labels = <<StoredLabel>>

\* C12 as stated: a direct write fails with the already-exists assertion and
\* leaves the files as they were when overwrite is false and the path exists;
\* in every other case the file at the path holds exactly the new document.
C12_WriteReplacesInEveryOtherCase ==
    [][cpc = "input" /\ cpc' = "written"
       => IF ~cwrite'.overwrite /\ exists(fs, cwrite'.path)
          THEN exc' = "AssertionError" /\ fs' = fs
          ELSE /\ exc' = NoExc
               /\ Resolve(cwrite'.path) \in DOMAIN fs'.files
               /\ fs'.files[Resolve(cwrite'.path)] = cdoc']_vars

\* C12 amended: a direct write fails with the already-exists assertion and
\* leaves the files as they were when overwrite is false and the path exists;
\* otherwise, when the directory of the path exists, the file at the path
\* holds exactly the new document and no other file changes; and when that
\* directory does not exist the write raises FileNotFoundError and the file
\* system stays as it was.
C12_WriteOverwriteContract ==
    [][cpc = "input" /\ cpc' = "written"
       => IF ~cwrite'.overwrite /\ exists(fs, cwrite'.path)
          THEN exc' = "AssertionError" /\ fs' = fs
          ELSE IF Front(Resolve(cwrite'.path)) \in fs.dirs
          THEN /\ exc' = NoExc
               /\ DOMAIN fs'.files = DOMAIN fs.files \cup {Resolve(cwrite'.path)}
               /\ fs'.files[Resolve(cwrite'.path)] = cdoc'
               /\ \A q \in DOMAIN fs.files \ {Resolve(cwrite'.path)} :
                      fs'.files[q] = fs.files[q]
               /\ fs'.dirs = fs.dirs
          ELSE exc' = "FileNotFoundError" /\ fs' = fs]_vars

\* C12 witness: a write without overwrite met an existing file, failed, and
\* the file still holds the earlier document, which is not the new one.
C12_Witness ==
    /\ cpc = "written" /\ ~cwrite.overwrite /\ cwrite.existed
    /\ exc = "AssertionError"
    /\ fs.files[Resolve(cwrite.path)] = OldDoc /\ OldDoc # cdoc

\* C13: in a folder of readable images, Next, Previous, Clear and Quit on an
\* image with zero committed boxes and no annotation file raise no error.
C13_NoDeleteOfMissingFile ==
    [][/\ AllReadable
       /\ self.cur_bboxes = <<>>
       /\ ContractPath(self.index) \notin DOMAIN fs.files
       /\ \/ pc = "run" /\ last'.cmd \in {"next", "prev", "clear"}
          \/ QuitStep
       => exc' = NoExc]_vars

\* C14: when Clear has completed, the current image has zero committed boxes
\* and the dirty flag is set.
C14_ClearMarksDirty ==
    pc = "run" /\ last.cmd = "clear" => self.cur_bboxes = <<>> /\ self.changed

\* C15: on a Next/Previous step, the outgoing image's file is created or
\* changed only if the image was dirty with >= 1 box, and then it holds the
\* record; it is deleted only if the record was empty (so never both); leaving
\* a non-dirty image with >= 1 box leaves the file system as it was.
C15_WriteDeleteExclusive ==
    [][NavStep =>
         LET p == ContractPath(self.index)
             written == /\ p \in DOMAIN fs'.files
                        /\ (p \in DOMAIN fs.files => fs'.files[p] # fs.files[p])
             deleted == p \in DOMAIN fs.files /\ p \notin DOMAIN fs'.files
         IN /\ written => /\ self.changed /\ self.cur_bboxes # <<>>
                          /\ DocBoxes(fs'.files[p]) = self.cur_bboxes
            /\ deleted => self.cur_bboxes = <<>>
            /\ ~self.changed /\ self.cur_bboxes # <<>> => fs' = fs]_vars

\* C15 witness: Next has left an image whose record had come down to one of
\* its two stored boxes, and the file now holds that one box.
C15_Witness ==
    /\ pc = "run" /\ last = [cmd |-> "next", n |-> 1]
    /\ LET p == ContractPath((self.index - 1) % NumImages)
       IN /\ p \in DOMAIN fs.files
          /\ DocBoxes(fs.files[p]) = <<<<12, 0, 3, 4>>>>

\* C16: a press starts a zero-size box at the press point; a move while
\* drawing changes only the box's second corner; a release while drawing
\* appends the in-progress box and the session's label to the end of the
\* current record (and of its map entry), sets the dirty flag, empties the
\* in-progress box and changes nothing else; a move or release while no draw
\* is in progress changes nothing.
C16_ReleaseCommitsOnePair ==
    [][/\ pc = "run" /\ last'.cmd = "down"
             => \E p \in DownPoints :
                   self' = [self EXCEPT !.bbbox_in_progress = <<p[1], p[2], p[1], p[2]>>]
       /\ pc = "run" /\ last'.cmd = "move" /\ self.bbbox_in_progress # <<>>
             => \E p \in MovePoints :
                   self' = [self EXCEPT !.bbbox_in_progress =
                               <<self.bbbox_in_progress[1], self.bbbox_in_progress[2],
                                 p[1], p[2]>>]
       /\ pc = "run" /\ last'.cmd \in {"move", "up"} /\ self.bbbox_in_progress = <<>>
             => self' = self
       /\ pc = "run" /\ last'.cmd = "up" /\ self.bbbox_in_progress # <<>>
             => /\ self'.cur_bboxes = Append(self.cur_bboxes, self.bbbox_in_progress)
                /\ self'.cur_labels = Append(self.cur_labels, self.obj_label)
                /\ self'.changed
                /\ self'.bbbox_in_progress = <<>>
                /\ self'.annotations
                      = [self.annotations EXCEPT ![cur_img_path(self)] =
                            <<self'.cur_bboxes, self'.cur_labels>>]
                /\ [self' EXCEPT !.cur_bboxes = self.cur_bboxes,
                                 !.cur_labels = self.cur_labels,
                                 !.changed = self.changed,
                                 !.bbbox_in_progress = self.bbbox_in_progress,
                                 !.annotations = self.annotations] = self
       /\ pc = "run" /\ last'.cmd \in {"down", "move", "up"}
             => fs' = fs /\ pc' = "run" /\ exc' = NoExc]_vars

\* C16 witness: a release has put a dragged box, with the session's label,
\* behind the two stored pairs.
C16_Witness ==
    /\ pc = "run" /\ last = [cmd |-> "up", n |-> 2]
    /\ self.cur_bboxes = <<<<12, 0, 3, 4>>, <<3, 4, 3, 4>>, <<3, 4, 12, 0>>>>
    /\ self.cur_labels = <<StoredLabel, SessionLabel, SessionLabel>>
    /\ self.changed /\ self.bbbox_in_progress = <<>>

\* C17: a step of any command leaves the annotation file of every image other
\* than the current one as it was, present or absent, with its content; and
\* the exit that follows a failed command changes no file at all.
C17_OtherImagesFilesKept ==
    [][\/ fs' = fs
       \/ /\ \A i \in 0..(NumImages - 1) :
                i # self.index =>
                   /\ (ContractPath(i) \in DOMAIN fs'.files) <=> (ContractPath(i) \in DOMAIN fs.files)
                   /\ ContractPath(i) \in DOMAIN fs.files
                         => fs'.files[ContractPath(i)] = fs.files[ContractPath(i)]
          /\ ~(pc = "exiting" /\ exc # NoExc)]_vars

\* C17 witness: Next from the first image, cut down to one box, failed on an
\* unreadable second image: the first image's file was written and the second
\* image's stored file is still there.
C17_Witness ==
    /\ pc = "exiting" /\ exc = "AssertionError" /\ last = [cmd |-> "next", n |-> 1]
    /\ self.index = 1 /\ ~imread(fs, cur_img_path(self))
    /\ ContractPath(0) \in DOMAIN fs.files
    /\ Len(fs.files[ContractPath(0)].objects) = 1
    /\ ContractPath(1) \in DOMAIN fs.files
    /\ fs.files[ContractPath(1)] \in StoredDocs

\* the current committed record is the map entry of the current image
RecordIsMapEntry(s) ==
    /\ cur_img_path(s) \in DOMAIN s.annotations
    /\ s.annotations[cur_img_path(s)] = <<s.cur_bboxes, s.cur_labels>>

\* C18: while the loop runs, the map entry of the current image is the current
\* record; no step changes the entry of another image; and a completed
\* Next/Previous keeps the outgoing record as its entry and shows the incoming
\* image's entry as it was. So an image left and visited again, not cleared in
\* between, shows the record it was left with.
C18_RecordKeptAcrossNavigation ==
    [][/\ pc = "run" => RecordIsMapEntry(self)
       /\ pc' = "run" => RecordIsMapEntry(self')
       /\ \A i \in 0..(NumImages - 1) :
             i # self.index /\ self.img_paths[i + 1] \in DOMAIN self.annotations
                => /\ self.img_paths[i + 1] \in DOMAIN self'.annotations
                   /\ self'.annotations[self.img_paths[i + 1]]
                         = self.annotations[self.img_paths[i + 1]]
       /\ NavStep /\ pc' = "run"
             => /\ self'.annotations[cur_img_path(self)] = <<self.cur_bboxes, self.cur_labels>>
                /\ cur_img_path(self') \in DOMAIN self.annotations /\ self'.index # self.index
                      => <<self'.cur_bboxes, self'.cur_labels>>
                            = self.annotations[cur_img_path(self')]]_vars

\* C18 witness: the first image, left with a third box committed in this
\* session, is current again after a navigation and shows the three pairs.
C18_Witness ==
    /\ pc = "run" /\ last.cmd \in {"next", "prev"}
    /\ self.index = 0 /\ ~self.changed /\ 0 \notin untouched
    /\ self.cur_bboxes = <<<<12, 0, 3, 4>>, <<3, 4, 3, 4>>, <<3, 4, 12, 0>>>>
    /\ self.cur_labels = <<StoredLabel, SessionLabel, SessionLabel>>

\* C19: a step of Next, Previous, Clear or Undo, failing or not, leaves the
\* in-progress box as it was; and a release while drawing commits the box to
\* the record of the image that is current at that moment, whose index it does
\* not change.
C19_DragSurvivesKeys ==
    [][/\ pc = "run" /\ last'.cmd \in {"next", "prev", "clear", "undo"}
             => self'.bbbox_in_progress = self.bbbox_in_progress
       /\ pc = "run" /\ last'.cmd = "up" /\ self.bbbox_in_progress # <<>>
             => /\ self'.index = self.index
                /\ self'.annotations[cur_img_path(self)]
                      = <<Append(self.annotations[cur_img_path(self)][1],
                                 self.bbbox_in_progress),
                          Append(self.annotations[cur_img_path(self)][2],
                                 self.obj_label)>>
                /\ \A k \in DOMAIN self.annotations \ {cur_img_path(self)} :
                      self'.annotations[k] = self.annotations[k]]_vars

\* C19 witness: right after a completed Next onto the second image, a drag
\* begun before the key is still in progress with both its corners.
C19_Witness ==
    /\ pc = "run" /\ last.cmd = "next" /\ self.index = 1
    /\ self.bbbox_in_progress = <<3, 4, 12, 0>>

====
